---- MODULE Spec2Model ----
(***************************************************************************)
(* Model of the playback/switching engine of landr-mastering:              *)
(* src/src/hooks/useComparePlayer.ts (the Web Audio hook).                 *)
(*                                                                         *)
(* Time is counted in milliseconds (the source uses seconds as floats:     *)
(* 0.005 s = 5, 0.015 s = 15, 0.05 s = 50, 0.002 s = 2).                   *)
(*                                                                         *)
(* A React state variable and the ref that mirrors it through an effect    *)
(* (isPlaying / isPlayingRef, activeTrackId / activeTrackIdRef) are one    *)
(* variable here: a handler and the commit of the state it sets are one    *)
(* step.                                                                   *)
(***************************************************************************)
EXTENDS Integers, Sequences, FiniteSets, TLC

\* ------------------------------------------------------------ constants

SWITCH_TIME_PADDING == 50
SWITCH_CROSSFADE_SECONDS == 15
START_LEAD_TIME_SECONDS == 5
\* the 0.002 s added to the hard stop in scheduleStopPlayback
STOP_TAIL == 2
\* volumes are counted in hundredths: 0.7 = 70, and the 1 of clamp(v, 0, 1)
INITIAL_VOLUME == 70
VOLUME_ONE == 100
\* INITIAL_VOLUME of the controller built on one HTML audio element: 0.85
INITIAL_VOLUME_AUDIO == 85

\* ------------------------------------------------------------ bounds

\* the hardware clock is followed up to MaxTime
MaxTime == 80
\* replacements of the track list (format switches) that are followed
MaxReloads == 1
\* calls of togglePlay, seek, setVolume and switchTrack and replacements of
\* the track list that are followed
MaxCalls == 2
\* the calls followed from InitDeep: one more
MaxCallsDeep == MaxCalls + 1

\* the track ids of the list handed to the hook; tracks[0] is InitialTrack
Tracks == {"original", "master-1", "master-2"}
InitialTrack == "original"
TrackOrder == <<"original", "master-1", "master-2">>
totalTracks == Len(TrackOrder)

\* durations of the audio assets: the variants are co-durational but for
\* one, which is longer
DurShort == SWITCH_TIME_PADDING + 2 * START_LEAD_TIME_SECONDS
DurLong == SWITCH_TIME_PADDING + 4 * START_LEAD_TIME_SECONDS

\* steps by which the hardware clock is observed to advance
AdvanceSteps == {2 * START_LEAD_TIME_SECONDS, 6 * START_LEAD_TIME_SECONDS}

\* arguments given to seek
SeekTimes == {0 - START_LEAD_TIME_SECONDS, START_LEAD_TIME_SECONDS, DurShort,
              DurLong + START_LEAD_TIME_SECONDS}

\* arguments given to setVolume
Volumes == {0 - 20, 40, VOLUME_ONE + 20}

\* the track lists the hook is given: one file per track (buildTracks), and
\* the placeholder list in which every track names the same file (TRACKS)
FileMaps == {
  [t \in Tracks |-> "mp3/" \o t],
  [t \in Tracks |-> "nwy-original.mp3"] }
InitialFileMaps == { [t \in Tracks |-> "mp3/" \o t] }

\* buffer.duration of the decoded file
FileDuration(f) ==
  IF f = "mp3/master-2" THEN DurLong ELSE DurShort
\* what a decode promise settles with: a duration, or 0 for a rejection
Outcomes(f) == {0, FileDuration(f)}

\* ------------------------------------------------------------ state

VARIABLES
  now,              \* context.currentTime
  ctxState,         \* context.state: "suspended" | "running"
  pendingResume,    \* startPlayback closures waiting on context.resume()
  fileOf,           \* track.file of the current track list
  pending,          \* files whose decode promise of the current load is unsettled
  stalePending,     \* <<load number, file, tracks>> promises of disposed loads
  reloads,          \* number of times the track list was replaced
  buffers,          \* buffersRef: track id -> buffer.duration, 0 when absent
  activeTrackId,    \* activeTrackId / activeTrackIdRef
  isPlaying,        \* isPlaying / isPlayingRef
  currentTime,      \* published currentTime
  duration,         \* published duration
  readyTrackCount,  \* published readyTrackCount
  error,            \* published error: "none" | "load" | "play"
  playbackRef,      \* id of the tracked session, 0 when null
  playbackIdRef,    \* session id counter
  sessions,         \* sources started and whose onended has not run yet
  transportOffsetRef,
  transportStartContextTimeRef,
  volume,           \* published volume / volumeRef
  masterGain,       \* automation events scheduled on masterGain.gain
  calls,            \* calls of the public operations made so far
  callBudget,       \* calls of the public operations that are followed
  last,             \* the operation performed by the last step
  audio,            \* audioRef: the HTML audio element of the earlier controller
  pendingSwitchListenerRef,  \* its pending switch listener, NoListener when null
  isReady           \* its published isReady

vars == <<now, ctxState, pendingResume, fileOf, pending, stalePending, reloads,
          buffers, activeTrackId, isPlaying, currentTime, duration,
          readyTrackCount, error, playbackRef, playbackIdRef, sessions,
          transportOffsetRef, transportStartContextTimeRef, volume, masterGain,
          calls, callBudget, last, audio, pendingSwitchListenerRef, isReady>>

\* the state of the controller built on one HTML audio element
elementVars == <<audio, pendingSwitchListenerRef, isReady>>

\* the state that only the Web Audio controller has
webAudioVars == <<now, ctxState, pendingResume, fileOf, pending, stalePending,
                  reloads, buffers, readyTrackCount, playbackRef, playbackIdRef,
                  sessions, transportOffsetRef, transportStartContextTimeRef,
                  masterGain>>

\* pendingSwitchListenerRef.current = null
NoListener == [id |-> 0, prevTime |-> 0, wasPlaying |-> FALSE]

\* no audio element: the Web Audio controller creates none
NoAudio == [src |-> "none", currentTime |-> 0, paused |-> TRUE,
            readyState |-> "HAVE_NOTHING", duration |-> 0, loading |-> FALSE,
            timeupdateQueued |-> FALSE, listeners |-> <<>>]

\* ------------------------------------------------------------ helpers

Max(a, b) == IF a >= b THEN a ELSE b
Min(a, b) == IF a <= b THEN a ELSE b

clamp(value, lo, hi) == Min(hi, Max(lo, value))

isLibraryReady == readyTrackCount >= totalTracks

getTrackDuration(trackId) == buffers[trackId]

\* a transport time whose elapsed time may be negative
TransportTimeOf_NoFloor(trackDuration, playing, offset, anchor, clock) ==
  IF trackDuration <= 0 THEN 0
  ELSE IF ~playing THEN clamp(offset, 0, trackDuration)
  ELSE clamp(offset + (clock - anchor), 0, trackDuration)

\* getTransportTime with the refs given explicitly
TransportTimeOf(trackDuration, playing, offset, anchor, clock) ==
  IF trackDuration <= 0 THEN 0
  ELSE IF ~playing THEN clamp(offset, 0, trackDuration)
  ELSE clamp(offset + Max(0, clock - anchor), 0, trackDuration)

getTransportTime(trackId) ==
  TransportTimeOf(getTrackDuration(trackId), isPlaying, transportOffsetRef,
                  transportStartContextTimeRef, now)

\* the transport position a caller reads
Position == getTransportTime(activeTrackId)

SafeOffset(offset, bufferDuration) ==
  clamp(offset, 0, Max(0, bufferDuration - SWITCH_TIME_PADDING))

\* a cancelScheduledValues that removes nothing
cancelScheduledValues_Nothing(events, cancelTime) == events

\* AudioParam.cancelScheduledValues(cancelTime): the events scheduled at or
\* after cancelTime are removed
cancelScheduledValues(events, cancelTime) ==
  { e \in events : e.at < cancelTime }

\* gains are counted in fifteenths, so that the linear ramp of a crossfade
\* moves by one unit in a millisecond; a GainNode is created with gain 1
GAIN_ONE == SWITCH_CROSSFADE_SECONDS

setValueAtTime(events, value, startTime) ==
  events \cup { [kind |-> "set", value |-> value, at |-> startTime] }

linearRampToValueAtTime(events, value, endTime) ==
  events \cup { [kind |-> "ramp", value |-> value, at |-> endTime] }

\* the last of the events E in the order of the timeline: by time, and at
\* one time the ramp, which was inserted after the setValueAtTime
LatestEvent(E) ==
  CHOOSE e \in E : \A o \in E : o.at < e.at \/ (o.at = e.at /\ (o = e \/ o.kind = "set"))

EarliestEvent(E) ==
  CHOOSE e \in E : \A o \in E : o.at > e.at \/ (o.at = e.at /\ (o = e \/ o.kind = "ramp"))

\* the value of an AudioParam at time t, past being the events before t and
\* coming those after: on a linear ramp between the two, else the value of
\* the last event, else the value the param was created with
ParamValue(past, coming, t) ==
  IF past = {} THEN GAIN_ONE
  ELSE IF coming # {} /\ EarliestEvent(coming).kind = "ramp"
  THEN LET p == LatestEvent(past)
           n == EarliestEvent(coming)
       IN p.value + ((n.value - p.value) * (t - p.at)) \div (n.at - p.at)
  ELSE LatestEvent(past).value

\* gain.gain.value read at time t
gainValue(events, t) ==
  ParamValue({ e \in events : e.at <= t }, { e \in events : e.at > t }, t)

\* the value the timeline renders just before time t
gainBefore(events, t) ==
  ParamValue({ e \in events : e.at < t }, { e \in events : e.at >= t }, t)

\* the automation createPlayback schedules on the gain of a new session
\* (fadeInSeconds is SWITCH_CROSSFADE_SECONDS at every call)
FadeIn(startAt) ==
  linearRampToValueAtTime(
    setValueAtTime(cancelScheduledValues({}, startAt), 0, startAt),
    GAIN_ONE, startAt + SWITCH_CROSSFADE_SECONDS)

\* the automation scheduleStopPlayback leaves on the gain of a session
FadeOut(events, stopAt, fadeOutSeconds) ==
  LET currentGainValue == gainValue(events, now)
  IN linearRampToValueAtTime(
       setValueAtTime(cancelScheduledValues(events, stopAt),
                      currentGainValue, stopAt),
       0, stopAt + fadeOutSeconds)

\* a start time that is the clock reading, whatever time was asked for
startAtOf_Now(when) == now

\* createPlayback: startAt, never before the clock reading
startAtOf(when) == Max(when, now)

\* a createPlayback that starts the source at the offset it is given
createPlayback_NoPadding(trackId, when, offset) ==
  [ id          |-> playbackIdRef + 1,
    track       |-> trackId,
    dur         |-> buffers[trackId],
    startAt     |-> startAtOf(when),
    startOffset |-> clamp(offset, 0, buffers[trackId]),
    stopped     |-> FALSE,
    fadeOutAt   |-> 0,
    stopAt      |-> 0,
    gain        |-> FadeIn(startAtOf(when)) ]

\* createPlayback: the session it starts (the caller has checked the buffer)
createPlayback(trackId, when, offset) ==
  [ id          |-> playbackIdRef + 1,
    track       |-> trackId,
    dur         |-> buffers[trackId],
    startAt     |-> startAtOf(when),
    startOffset |-> SafeOffset(offset, buffers[trackId]),
    stopped     |-> FALSE,
    fadeOutAt   |-> 0,
    stopAt      |-> 0,
    gain        |-> FadeIn(startAtOf(when)) ]

\* a scheduleStopPlayback that fades out from the clock reading of the call
scheduleStopPlayback_AtCall(s, when, fadeOutSeconds) ==
  [ s EXCEPT !.stopped   = TRUE,
             !.fadeOutAt = now,
             !.stopAt    = now + fadeOutSeconds + STOP_TAIL,
             !.gain      = FadeOut(s.gain, now, fadeOutSeconds) ]

\* scheduleStopPlayback on one session
scheduleStopPlayback(s, when, fadeOutSeconds) ==
  [ s EXCEPT !.stopped   = TRUE,
             !.fadeOutAt = Max(when, now),
             !.stopAt    = Max(when, now) + fadeOutSeconds + STOP_TAIL,
             !.gain      = FadeOut(s.gain, Max(when, now), fadeOutSeconds) ]

\* source.stop() without a time, as pauseNonActiveSources calls it
StopNow(s) ==
  [ s EXCEPT !.stopped = TRUE, !.fadeOutAt = now, !.stopAt = now ]

Tracked == { s \in sessions : s.id = playbackRef }

\* the sessions after scheduleStopPlayback(playbackRef.current, when, fade)
StopTracked(when, fadeOutSeconds) ==
  { IF s.id = playbackRef THEN scheduleStopPlayback(s, when, fadeOutSeconds) ELSE s :
      s \in sessions }

\* the sessions after pauseNonActiveSources has stopped the tracked one
StopTrackedNow ==
  { IF s.id = playbackRef THEN StopNow(s) ELSE s : s \in sessions }

NaturalEnd(s) == s.startAt + (s.dur - s.startOffset)
EndTime(s) == IF s.stopped THEN Min(s.stopAt, NaturalEnd(s)) ELSE NaturalEnd(s)

\* a session is alive from its creation until the source ends
Alive(s, clock) == clock < EndTime(s)
AliveSessions == { s \in sessions : Alive(s, now) }

\* ------------------------------------------------------------ decodeFile

\* a decodeFile that never finds a file in its cache
IsCached_Never(file, decodeCache) == FALSE

\* decodeFile: the file has a promise in decodeCache
IsCached(file, decodeCache) == file \in decodeCache

\* tracks.forEach(track => decodeFile(track.file)) from track i on: the
\* files fetched, in order, decodeCache holding the files fetched before
RECURSIVE FetchesFrom(_, _, _)
FetchesFrom(m, i, decodeCache) ==
  IF i > Len(TrackOrder) THEN <<>>
  ELSE LET file == m[TrackOrder[i]]
       IN IF IsCached(file, decodeCache)
          THEN FetchesFrom(m, i + 1, decodeCache)
          ELSE <<file>> \o FetchesFrom(m, i + 1, decodeCache \cup {file})

\* the fetches one load of the track list m makes
FetchesOf(m) == FetchesFrom(m, 1, {})

\* the decode promises one load of the track list m creates
PromisesOf(m) == { FetchesOf(m)[i] : i \in DOMAIN FetchesOf(m) }

\* ------------------------------------------------------------ Init

InitFrom(maps) ==
  /\ now = 0
  /\ ctxState \in {"suspended", "running"}
  /\ pendingResume = <<>>
  /\ fileOf \in maps
  /\ pending = PromisesOf(fileOf)
  /\ stalePending = {}
  /\ reloads = 0
  /\ buffers = [t \in Tracks |-> 0]
  /\ activeTrackId = InitialTrack
  /\ isPlaying = FALSE
  /\ currentTime = 0
  /\ duration = 0
  /\ readyTrackCount = 0
  /\ error = "none"
  /\ playbackRef = 0
  /\ playbackIdRef = 0
  /\ sessions = {}
  /\ transportOffsetRef = 0
  /\ transportStartContextTimeRef = 0
  /\ volume = INITIAL_VOLUME
  /\ masterGain = {}
  /\ calls = 0
  /\ last = "init"
  /\ audio = NoAudio
  /\ pendingSwitchListenerRef = NoListener
  /\ isReady = FALSE

\* the hook mounted with the list of the initial format
InitState == InitFrom(InitialFileMaps)

\* the hook after its first render and the first run of its effects
Init == InitState /\ callBudget = MaxCalls

\* the hook mounted with any of the track lists
InitAnyList == InitFrom(FileMaps) /\ callBudget = MaxCalls

\* the same, with one call more to follow
InitDeep == InitState /\ callBudget = MaxCallsDeep

Did(op) == last' = op /\ UNCHANGED <<calls, callBudget>> /\ UNCHANGED elementVars
Called(op) ==
  /\ calls < callBudget /\ calls' = calls + 1 /\ last' = op
  /\ UNCHANGED callBudget /\ UNCHANGED elementVars

\* ------------------------------------------------------------ loading

TracksOf(f) == { t \in Tracks : fileOf[t] = f }

\* a count raised once for a file, however many tracks name it
ResolvedCount_PerFile(prev, n) == Min(totalTracks, prev + 1)

\* setReadyTrackCount applied by the finally callbacks of n tracks
ResolvedCount(prev, n) == Min(totalTracks, prev + n)

\* a finally callback that runs only when the promise is fulfilled
SettledTracks_FulfilledOnly(f, d) == IF d > 0 THEN TracksOf(f) ELSE {}

\* the tracks whose finally callback runs when the promise of f settles with
\* d: every track naming f, whether it is fulfilled or rejected
SettledTracks(f, d) == TracksOf(f)

\* a load effect whose cleanup never marks it disposed
isDisposed_Never(loadNo) == FALSE

\* isDisposed of the load effect run numbered loadNo: set by its cleanup,
\* which runs when the track list is replaced
isDisposed(loadNo) == loadNo < reloads

\* The then / catch / finally callbacks of the tracks trks of load loadNo,
\* whose promise settles with a buffer of duration d or (d = 0) a rejection;
\* the finally callbacks of the tracks in settled run.
Callbacks(loadNo, trks, settled, d) ==
  IF isDisposed(loadNo)
  THEN UNCHANGED <<buffers, transportOffsetRef, duration, currentTime, error,
                   readyTrackCount>>
  ELSE /\ buffers' = IF d > 0
                     THEN [t \in Tracks |-> IF t \in trks THEN d ELSE buffers[t]]
                     ELSE buffers
       /\ IF d > 0 /\ activeTrackId \in trks
          THEN /\ transportOffsetRef' = SafeOffset(transportOffsetRef, d)
               /\ duration' = d
               /\ currentTime' = SafeOffset(transportOffsetRef, d)
          ELSE UNCHANGED <<transportOffsetRef, duration, currentTime>>
       /\ error' = IF d = 0 /\ activeTrackId \in trks THEN "load" ELSE error
       /\ readyTrackCount' = ResolvedCount(readyTrackCount, Cardinality(settled))

\* The decode promise of file f settles: with a buffer of duration d, or
\* (d = 0) with a rejection.  The then / catch / finally callbacks of every
\* track that names f run.
LoadResolve(f, d) ==
  /\ f \in pending
  /\ pending' = pending \ {f}
  /\ Callbacks(reloads, TracksOf(f), SettledTracks(f, d), d)
  /\ Did(IF d > 0 THEN "loadOk" ELSE "loadFail")
  /\ UNCHANGED <<now, ctxState, pendingResume, fileOf, volume, masterGain, stalePending, reloads,
                 activeTrackId, isPlaying, playbackRef, playbackIdRef, sessions,
                 transportStartContextTimeRef>>

\* A promise of an earlier run of the load effect settles with d: the
\* callbacks of the tracks that named its file in that run are called.
StaleResolve(x, d) ==
  /\ x \in stalePending
  /\ stalePending' = stalePending \ {x}
  /\ Callbacks(x[1], x[3], x[3], d)
  /\ Did("staleLoad")
  /\ UNCHANGED <<now, ctxState, pendingResume, fileOf, volume, masterGain, pending, reloads,
                 activeTrackId, isPlaying, playbackRef, playbackIdRef, sessions,
                 transportStartContextTimeRef>>

\* The track list is replaced by one with the files m: the cleanup of the
\* load effect disposes the running load and the effect runs again.
Reload(m) ==
  /\ reloads < MaxReloads
  /\ m # fileOf
  /\ reloads' = reloads + 1
  /\ fileOf' = m
  /\ stalePending' = stalePending \cup { <<reloads, f, TracksOf(f)>> : f \in pending }
  /\ pending' = PromisesOf(m)
  /\ sessions' = StopTracked(now, 0)
  /\ playbackRef' = 0
  /\ isPlaying' = FALSE
  /\ buffers' = [t \in Tracks |-> 0]
  /\ readyTrackCount' = 0
  /\ Called("reload")
  /\ UNCHANGED <<now, ctxState, pendingResume, volume, masterGain, activeTrackId,
                 currentTime, duration,
                 error, playbackIdRef, transportOffsetRef,
                 transportStartContextTimeRef>>

\* ------------------------------------------------------------ togglePlay

\* a start offset that is not wrapped at the end of the track
WrapAtEnd_Never(startOffset, maxOffset) == startOffset

\* a startPlayback that starts every session at 0
WrapAtEnd_Always(startOffset, maxOffset) == 0

\* startPlayback wraps a start offset at the end of the track to 0
WrapAtEnd(startOffset, maxOffset) ==
  IF startOffset >= maxOffset THEN 0 ELSE startOffset

\* startPlayback: the closure togglePlay builds over activeId and the
\* duration of activeBuffer, run at once or after context.resume().
startPlayback(activeId, bufferDuration) ==
  LET maxOffset   == Max(0, bufferDuration - SWITCH_TIME_PADDING)
      clamped     == clamp(transportOffsetRef, 0, maxOffset)
      startOffset == WrapAtEnd(clamped, maxOffset)
      np          == createPlayback(activeId, now + START_LEAD_TIME_SECONDS, startOffset)
  IN IF buffers[activeId] = 0
     THEN \* createPlayback returns null
          /\ error' = "play"
          /\ UNCHANGED <<isPlaying, playbackRef, playbackIdRef, sessions,
                         transportOffsetRef, transportStartContextTimeRef>>
     ELSE \* pauseNonActiveSources stops a session still tracked at once
          /\ sessions' = StopTrackedNow \cup {np}
          /\ playbackRef' = np.id
          /\ playbackIdRef' = np.id
          /\ transportOffsetRef' = np.startOffset
          /\ transportStartContextTimeRef' = np.startAt
          /\ isPlaying' = TRUE
          /\ error' = "none"

\* a togglePlay that does not look for the buffer of the active track
ActiveBufferMissing_Never == FALSE

\* togglePlay: the active track has no decoded buffer
ActiveBufferMissing == buffers[activeTrackId] = 0

togglePlay ==
  /\ Called("togglePlay")
  /\ UNCHANGED <<now, ctxState, fileOf, volume, masterGain, pending, stalePending, reloads, buffers,
                 activeTrackId, duration, readyTrackCount>>
  /\ IF ~isLibraryReady
     THEN UNCHANGED <<pendingResume, isPlaying, currentTime, error, playbackRef,
                      playbackIdRef, sessions, transportOffsetRef,
                      transportStartContextTimeRef>>
     ELSE IF ActiveBufferMissing
     THEN /\ error' = "load"
          /\ UNCHANGED <<pendingResume, isPlaying, currentTime, playbackRef,
                         playbackIdRef, sessions, transportOffsetRef,
                         transportStartContextTimeRef>>
     ELSE IF isPlaying
     THEN /\ transportOffsetRef' = getTransportTime(activeTrackId)
          /\ currentTime' = getTransportTime(activeTrackId)
          /\ isPlaying' = FALSE
          /\ sessions' = StopTracked(now, SWITCH_CROSSFADE_SECONDS)
          /\ playbackRef' = 0
          /\ UNCHANGED <<pendingResume, error, playbackIdRef,
                         transportStartContextTimeRef>>
     ELSE IF ctxState = "suspended"
     THEN /\ pendingResume' = Append(pendingResume,
                                [activeId |-> activeTrackId,
                                 dur |-> buffers[activeTrackId]])
          /\ UNCHANGED <<isPlaying, currentTime, error, playbackRef, playbackIdRef,
                         sessions, transportOffsetRef, transportStartContextTimeRef>>
     ELSE /\ startPlayback(activeTrackId, buffers[activeTrackId])
          /\ UNCHANGED <<pendingResume, currentTime>>

\* context.resume() is fulfilled: the context runs and startPlayback is called
ResumeResolve ==
  /\ pendingResume # <<>>
  /\ ctxState' = "running"
  /\ pendingResume' = Tail(pendingResume)
  /\ startPlayback(Head(pendingResume).activeId, Head(pendingResume).dur)
  /\ Did("resumeOk")
  /\ UNCHANGED <<now, fileOf, volume, masterGain, pending, stalePending, reloads, buffers,
                 activeTrackId, currentTime, duration, readyTrackCount>>

\* context.resume() is rejected: the catch handler runs
ResumeReject ==
  /\ pendingResume # <<>>
  /\ ctxState = "suspended"
  /\ pendingResume' = Tail(pendingResume)
  /\ error' = "play"
  /\ isPlaying' = FALSE
  /\ Did("resumeFail")
  /\ UNCHANGED <<now, ctxState, fileOf, volume, masterGain, pending, stalePending, reloads, buffers,
                 activeTrackId, currentTime, duration, readyTrackCount, playbackRef,
                 playbackIdRef, sessions, transportOffsetRef,
                 transportStartContextTimeRef>>

\* ------------------------------------------------------------ seek

\* a seek that schedules audio whatever the play state
SeekReturnsWhenPaused_Never == FALSE

\* seek returns after the bookkeeping when the engine is not playing
SeekReturnsWhenPaused == ~isPlaying

seek(timeInSeconds) ==
  LET safeTime == clamp(timeInSeconds, 0, buffers[activeTrackId])
      switchAt == now + START_LEAD_TIME_SECONDS
      np       == createPlayback(activeTrackId, switchAt, safeTime)
  IN
  /\ Called("seek")
  /\ UNCHANGED <<now, ctxState, pendingResume, fileOf, volume, masterGain, pending, stalePending,
                 reloads, buffers, activeTrackId, isPlaying, duration,
                 readyTrackCount, error>>
  /\ IF buffers[activeTrackId] = 0
     THEN UNCHANGED <<currentTime, playbackRef, playbackIdRef, sessions,
                      transportOffsetRef, transportStartContextTimeRef>>
     ELSE IF SeekReturnsWhenPaused
     THEN /\ transportOffsetRef' = safeTime
          /\ currentTime' = safeTime
          /\ UNCHANGED <<playbackRef, playbackIdRef, sessions,
                         transportStartContextTimeRef>>
     ELSE /\ currentTime' = safeTime
          /\ playbackRef' = np.id
          /\ playbackIdRef' = np.id
          /\ transportOffsetRef' = np.startOffset
          /\ transportStartContextTimeRef' = np.startAt
          /\ sessions' = StopTracked(switchAt, SWITCH_CROSSFADE_SECONDS)
                         \cup {np}

\* ------------------------------------------------------------ setVolume

\* the context and the master gain exist from the first run of the load
\* effect on, so the early return of setVolume is never taken
setVolume(nextVolume) ==
  LET safeVolume == clamp(nextVolume, 0, VOLUME_ONE)
  IN
  /\ Called("setVolume")
  /\ volume' = safeVolume
  /\ masterGain' = cancelScheduledValues(masterGain, now)
                    \cup { [target |-> safeVolume, at |-> now] }
  /\ UNCHANGED <<now, ctxState, pendingResume, fileOf, pending, stalePending,
                 reloads, buffers, activeTrackId, isPlaying, currentTime, duration,
                 readyTrackCount, error, playbackRef, playbackIdRef, sessions,
                 transportOffsetRef, transportStartContextTimeRef>>

\* ------------------------------------------------------------ switchTrack

\* a switchTrack that does not return on the active track's id
IsActiveTrack_Never(nextTrackId) == FALSE

\* switchTrack returns at once when given the active track's id
IsActiveTrack(nextTrackId) == nextTrackId = activeTrackId

switchTrack(nextTrackId) ==
  LET nextDuration  == buffers[nextTrackId]
      transportTime == getTransportTime(activeTrackId)
      maxOffset     == Max(0, nextDuration - SWITCH_TIME_PADDING)
      nextOffset    == clamp(transportTime, 0, maxOffset)
      switchAt      == now + START_LEAD_TIME_SECONDS
      np            == [createPlayback(nextTrackId, switchAt, nextOffset)
                          EXCEPT !.track = nextTrackId]
  IN
  /\ Called("switchTrack")
  /\ UNCHANGED <<now, ctxState, pendingResume, fileOf, volume, masterGain, pending, stalePending,
                 reloads, buffers, isPlaying, readyTrackCount>>
  /\ IF IsActiveTrack(nextTrackId)
     THEN UNCHANGED <<activeTrackId, currentTime, duration, error, playbackRef,
                      playbackIdRef, sessions, transportOffsetRef,
                      transportStartContextTimeRef>>
     ELSE /\ activeTrackId' = nextTrackId
          /\ currentTime' = nextOffset
          /\ duration' = nextDuration
          /\ error' = IF nextDuration # 0 THEN "none" ELSE "load"
          /\ IF ~isPlaying \/ nextDuration = 0
             THEN /\ transportOffsetRef' = nextOffset
                  /\ UNCHANGED <<playbackRef, playbackIdRef, sessions,
                                 transportStartContextTimeRef>>
             ELSE /\ playbackRef' = np.id
                  /\ playbackIdRef' = np.id
                  /\ transportOffsetRef' = np.startOffset
                  /\ transportStartContextTimeRef' = np.startAt
                  /\ sessions' = StopTracked(switchAt, SWITCH_CROSSFADE_SECONDS)
                                 \cup {np}

\* ------------------------------------------------------------ tick, clock, onended

\* the animation-frame callback
tick ==
  /\ currentTime' = IF isPlaying THEN getTransportTime(activeTrackId) ELSE currentTime
  /\ Did("tick")
  /\ UNCHANGED <<now, ctxState, pendingResume, fileOf, volume, masterGain, pending, stalePending,
                 reloads, buffers, activeTrackId, isPlaying, duration,
                 readyTrackCount, error, playbackRef, playbackIdRef, sessions,
                 transportOffsetRef, transportStartContextTimeRef>>

\* a source whose end has been reached and whose ended event is not yet handled
EndedUnhandled == { s \in sessions : now >= EndTime(s) }

\* The hardware clock advances: only while the context runs, and an ended
\* event is dispatched before the clock is seen to move on.  The clock is
\* followed only while a source exists or the transport runs: in every other
\* state no operation depends on its reading but by translation.
Advance(d) ==
  /\ ctxState = "running"
  /\ (sessions # {} \/ isPlaying)
  /\ EndedUnhandled = {}
  /\ now + d <= MaxTime
  /\ now' = now + d
  /\ Did("advance")
  /\ UNCHANGED <<ctxState, pendingResume, fileOf, volume, masterGain, pending, stalePending, reloads,
                 buffers, activeTrackId, isPlaying, currentTime, duration,
                 readyTrackCount, error, playbackRef, playbackIdRef, sessions,
                 transportOffsetRef, transportStartContextTimeRef>>

\* an ended callback that takes every session for a superseded one
IsStale_Always(s) == TRUE

\* an ended callback that takes every session for the tracked one
IsStale_Never(s) == FALSE

\* the ended callback of s returns at once when s is not the tracked session
IsStale(s) == playbackRef # s.id

\* source.onended of session s
onended(s) ==
  /\ s \in EndedUnhandled
  /\ sessions' = sessions \ {s}
  /\ Did("onended")
  /\ IF IsStale(s)
     THEN UNCHANGED <<playbackRef, isPlaying, transportOffsetRef, currentTime>>
     ELSE /\ playbackRef' = 0
          /\ IF ~isPlaying
             THEN UNCHANGED <<isPlaying, transportOffsetRef, currentTime>>
             ELSE /\ transportOffsetRef' = getTrackDuration(s.track)
                  /\ currentTime' = getTrackDuration(s.track)
                  /\ isPlaying' = FALSE
  /\ UNCHANGED <<now, ctxState, pendingResume, fileOf, volume, masterGain, pending, stalePending,
                 reloads, buffers, activeTrackId, duration, readyTrackCount, error,
                 playbackIdRef, transportStartContextTimeRef>>

\* ------------------------------------------------------------ specification

Next ==
  \/ \E f \in pending : \E d \in Outcomes(f) : LoadResolve(f, d)
  \/ \E x \in stalePending : \E d \in Outcomes(x[2]) : StaleResolve(x, d)
  \/ \E m \in FileMaps : Reload(m)
  \/ togglePlay
  \/ ResumeResolve
  \/ ResumeReject
  \/ \E t \in SeekTimes : seek(t)
  \/ \E v \in Volumes : setVolume(v)
  \/ \E n \in Tracks : switchTrack(n)
  \/ tick
  \/ \E d \in AdvanceSteps : Advance(d)
  \/ \E s \in sessions : onended(s)

Spec == Init /\ [][Next]_vars

\* the same steps, followed for one call more
SpecDeep == InitDeep /\ [][Next]_vars

SpecAnyList == InitAnyList /\ [][Next]_vars

\* some decode promise of the running load settles
LoadSettles == \E f \in pending : \E d \in Outcomes(f) : LoadResolve(f, d)

\* every fetch and decode eventually settles, fulfilled or rejected
FairSpec == Spec /\ WF_vars(LoadSettles)

\* ------------------------------------------------------------ claims

\* the epsilon of the position claims: 10 ms
Epsilon == 2 * START_LEAD_TIME_SECONDS

Abs(x) == IF x >= 0 THEN x ELSE 0 - x

\* C1: with the library ready, switchTrack to another track leaves isPlaying
\* unchanged and the transport position unchanged: within Epsilon when
\* playing, exactly when paused.  Stated for the positions outside the
\* closing padding of the track and for a next track that is co-durational
\* or has no buffer.
C1_SwitchKeepsPosition ==
  [][ \A n \in Tracks :
        ( /\ isLibraryReady
          /\ n # activeTrackId
          /\ Position <= buffers[activeTrackId] - SWITCH_TIME_PADDING
          /\ buffers[n] \in {0, buffers[activeTrackId]}
          /\ switchTrack(n) )
        => /\ isPlaying' = isPlaying
           /\ isPlaying => Abs(Position' - Position) <= Epsilon
           /\ ~isPlaying => Position' = Position ]_vars

\* C2 as stated: for every t in [0, duration] of the active track, the
\* position read right after seek(t) is t within Epsilon, paused or playing.
C2_SeekYieldsT ==
  [][ \A t \in SeekTimes :
        (buffers[activeTrackId] > 0 /\ 0 <= t /\ t <= buffers[activeTrackId]
           /\ seek(t))
        => Abs(Position' - t) <= Epsilon ]_vars

\* C2 as amended: for every t in [0, duration] the position read right after
\* seek(t) is t when the engine is paused, and min(t, duration - padding)
\* when it is playing; so it is t within Epsilon whenever t is at most
\* duration - padding + Epsilon.
C2_SeekYieldsClampedT ==
  [][ \A t \in SeekTimes :
        (buffers[activeTrackId] > 0 /\ 0 <= t /\ t <= buffers[activeTrackId]
           /\ seek(t))
        => LET limit == buffers[activeTrackId] - SWITCH_TIME_PADDING
           IN /\ ~isPlaying => Position' = t
              /\ isPlaying => Position' = Min(t, Max(0, limit))
              /\ t <= limit + Epsilon => Abs(Position' - t) <= Epsilon ]_vars

\* C2 witness: a seek into the last padding of the track has acted while
\* playing
C2_Witness ==
  /\ last = "seek"
  /\ isPlaying
  /\ currentTime = DurShort
  /\ transportOffsetRef = buffers[activeTrackId] - SWITCH_TIME_PADDING

\* C3: while playing, when switchTrack replaces a session by one of a track of
\* equal duration, the incoming session starts at the timeline position the
\* outgoing session renders at the switch instant (no drift across switches).
C3_NoDriftAcrossSwitch ==
  \A s \in sessions : \A o \in sessions :
    ( /\ isPlaying
      /\ s.id = playbackRef
      /\ o.id = s.id - 1
      /\ o.stopped
      /\ o.fadeOutAt = s.startAt
      /\ o.track # s.track
      /\ o.dur = s.dur
      /\ o.startAt <= s.startAt
      /\ o.startOffset + (s.startAt - o.startAt) <= s.dur - SWITCH_TIME_PADDING )
    => s.startOffset = o.startOffset + (s.startAt - o.startAt)

\* C4: when the tracked session ends while the engine is playing, the engine
\* becomes paused, tracks no session, and the transport offset is the
\* duration of the track (so the position read is the duration); a
\* togglePlay() made at that position starts a session at sample offset 0
\* and sets the transport offset to 0.
C4_EndThenRestart ==
  [][ /\ \A s \in sessions :
           (isPlaying /\ s.id = playbackRef /\ onended(s))
           => /\ ~isPlaying'
              /\ playbackRef' = 0
              /\ transportOffsetRef' = buffers[s.track]
              /\ currentTime' = buffers[s.track]
              /\ s.track = activeTrackId => Position' = buffers[activeTrackId]
      /\ ( /\ togglePlay
           /\ ~isPlaying
           /\ isLibraryReady
           /\ ctxState = "running"
           /\ buffers[activeTrackId] > 0
           /\ transportOffsetRef = buffers[activeTrackId] )
         => /\ isPlaying'
            /\ transportOffsetRef' = 0
            /\ \E s \in sessions' :
                 /\ s.id = playbackRef'
                 /\ s \notin sessions
                 /\ s.startOffset = 0
                 /\ s.track = activeTrackId ]_vars

\* C4 witness: the second of two calls is a togglePlay that started the second
\* session from 0: the first session has played to its end in between.
C4_Witness ==
  /\ last = "togglePlay"
  /\ calls = 2
  /\ playbackIdRef = 2
  /\ isPlaying
  /\ transportOffsetRef = 0
  /\ now >= DurShort

\* C5: an ended callback of a session that is not the tracked one changes
\* nothing: transport offset, isPlaying, current time, tracked session and
\* error stay as they were.
C5_StaleEndedIgnored ==
  [][ \A s \in sessions :
        (s.id # playbackRef /\ onended(s))
        => UNCHANGED <<transportOffsetRef, transportStartContextTimeRef,
                       isPlaying, currentTime, playbackRef, error>> ]_vars

\* C5 witness: an ended callback has run while the engine plays on: it was
\* that of a superseded session.
C5_Witness ==
  /\ last = "onended"
  /\ isPlaying
  /\ playbackRef # 0

\* C6: at most two sessions are alive at any instant.
C6_AtMostTwoAlive == Cardinality(AliveSessions) <= 2

\* C7: the transport offset lies in [0, duration of the active track], the
\* duration being the published one or that of the active buffer,
\* whichever is larger.
C7_OffsetWithinDuration ==
  /\ 0 <= transportOffsetRef
  /\ transportOffsetRef <= Max(duration, buffers[activeTrackId])

\* C8 as stated: while paused and with the library ready, a switchTrack
\* between ready co-durational tracks leaves the position as it was.
C8_PausedSwitchKeepsPosition ==
  [][ \A n \in Tracks :
        ( /\ ~isPlaying
          /\ isLibraryReady
          /\ n # activeTrackId
          /\ buffers[n] > 0
          /\ buffers[n] = buffers[activeTrackId]
          /\ switchTrack(n) )
        => Position' = Position ]_vars

\* C8 as amended: while paused, seek and switchTrack create no session and
\* stop none, isPlaying stays false and no session is tracked; a switchTrack
\* between ready co-durational tracks leaves the position as it was when it
\* is at most duration - padding, and moves it to duration - padding when
\* it is larger.
C8_PausedOpsScheduleNothing ==
  [][ /\ \A t \in SeekTimes :
           (~isPlaying /\ seek(t))
           => /\ sessions' = sessions
              /\ playbackIdRef' = playbackIdRef
              /\ ~isPlaying'
              /\ playbackRef' = 0
      /\ \A n \in Tracks :
           (~isPlaying /\ switchTrack(n))
           => /\ sessions' = sessions
              /\ playbackIdRef' = playbackIdRef
              /\ ~isPlaying'
              /\ playbackRef' = 0
              /\ (n # activeTrackId /\ buffers[n] > 0
                    /\ buffers[n] = buffers[activeTrackId])
                 => Position' = Min(Position,
                                    Max(0, buffers[n] - SWITCH_TIME_PADDING)) ]_vars

\* C8 witness: paused at a position above 0, a switch to a ready track of
\* equal duration has acted and the position is the one before.
C8_Witness ==
  /\ last = "switchTrack"
  /\ calls = 2
  /\ ~isPlaying
  /\ isLibraryReady
  /\ activeTrackId = "master-1"
  /\ buffers["master-1"] = buffers[InitialTrack]
  /\ Position = START_LEAD_TIME_SECONDS
  /\ sessions = {}

\* C9: switchTrack with the id of the active track changes nothing.
C9_SwitchToActiveIsNoOp ==
  [][ switchTrack(activeTrackId)
      => UNCHANGED <<sessions, playbackRef, playbackIdRef, activeTrackId,
                     transportOffsetRef, transportStartContextTimeRef,
                     currentTime, duration, isPlaying, error>> ]_vars

\* C9 witness: while playing, the second call was a switchTrack that left the
\* first session tracked and the initial track active.
C9_Witness ==
  /\ last = "switchTrack"
  /\ calls = 2
  /\ isPlaying
  /\ playbackRef = 1
  /\ playbackIdRef = 1
  /\ activeTrackId = InitialTrack
  /\ buffers["master-1"] > 0
  /\ buffers["master-2"] > 0

\* C10: readyTrackCount is at most totalTracks, isLibraryReady holds exactly
\* when they are equal, and the resolution of a file, fulfilled or rejected,
\* raises readyTrackCount by one for each track that names it.
C10_Readiness ==
  /\ [](readyTrackCount <= totalTracks
        /\ (isLibraryReady <=> readyTrackCount = totalTracks))
  /\ [][ \A f \in pending : \A d \in Outcomes(f) :
           LoadResolve(f, d)
           => readyTrackCount' = readyTrackCount + Cardinality(TracksOf(f)) ]_vars

\* C10 witness: the library is ready although the load of the active track
\* was rejected.
C10_Witness ==
  /\ isLibraryReady
  /\ readyTrackCount = totalTracks
  /\ buffers[activeTrackId] = 0
  /\ \E t \in Tracks : buffers[t] > 0
  /\ error = "load"

\* C12: in every state in which the engine is playing, togglePlay makes it
\* paused: the transport offset is the position at the call, the tracked
\* session is scheduled to fade out from now, and no session stays tracked.
C12_TogglePauses ==
  [][ (isPlaying /\ togglePlay)
      => /\ ~isPlaying'
         /\ transportOffsetRef' = Position
         /\ playbackRef' = 0
         /\ \A s \in sessions' :
              s.id = playbackRef
              => /\ s.stopped
                 /\ s.fadeOutAt = now
                 /\ s.stopAt = now + SWITCH_CROSSFADE_SECONDS + STOP_TAIL ]_vars

\* C13 as stated: togglePlay while paused and while the active track has no
\* buffer (pending or failed) creates no session, leaves isPlaying false and
\* leaves an error reported.
C13_NotReadyReportsError ==
  [][ (~isPlaying /\ buffers[activeTrackId] = 0 /\ togglePlay)
      => /\ sessions' = sessions
         /\ playbackIdRef' = playbackIdRef
         /\ ~isPlaying'
         /\ error' # "none" ]_vars

\* C13 as amended: togglePlay while paused and while the active track has no
\* buffer creates no session, defers no start and leaves isPlaying false;
\* with the library ready it sets the error to the load failure, and while
\* the library is still loading it leaves the error as it was.
C13_NotReadyCreatesNothing ==
  [][ (~isPlaying /\ buffers[activeTrackId] = 0 /\ togglePlay)
      => /\ sessions' = sessions
         /\ playbackIdRef' = playbackIdRef
         /\ pendingResume' = pendingResume
         /\ ~isPlaying'
         /\ isLibraryReady => error' = "load"
         /\ ~isLibraryReady => error' = error ]_vars

\* C13 witness: a togglePlay has acted with the library ready and the load of
\* the active track rejected
C13_Witness ==
  /\ last = "togglePlay"
  /\ isLibraryReady
  /\ pending = {}
  /\ buffers[activeTrackId] = 0
  /\ error = "load"
  /\ ~isPlaying
  /\ sessions = {}

\* C14: when togglePlay, a deferred start, a refused resume or switchTrack
\* leaves an error reported, the engine is paused, no session is tracked and
\* every session still alive has been stopped.
C14_FailureLeavesSafeState ==
  [][ ( /\ error' # "none"
        /\ \/ togglePlay
           \/ ResumeResolve
           \/ ResumeReject
           \/ \E n \in Tracks : switchTrack(n) )
      => /\ ~isPlaying'
         /\ playbackRef' = 0
         /\ \A s \in sessions' : s.stopped ]_vars

\* C15: whenever the error field holds a load failure, the active track has
\* no decoded buffer.
C15_LoadErrorOnlyWhileUnresolved ==
  error = "load" => buffers[activeTrackId] = 0

\* C17: every session created by togglePlay, a deferred start, seek or
\* switchTrack is scheduled to start at least the lookahead after the clock
\* reading of the step that creates it.
C17_StartNotInPast ==
  [][ \A s \in sessions' :
        s.id > playbackIdRef
        => /\ s.startAt >= now + START_LEAD_TIME_SECONDS
           /\ s.startAt >= now' ]_vars

\* C17 witness: a start deferred to the resume of the context has created a
\* session after the clock had advanced
C17_Witness ==
  /\ last = "resumeOk"
  /\ now > 0
  /\ \E s \in sessions :
       /\ s.id = playbackRef
       /\ s.id = playbackIdRef
       /\ s.startAt = now + START_LEAD_TIME_SECONDS

\* C19: within one load of the track list each file named by a track is
\* fetched exactly once, the promises of the load are those of the fetched
\* files, and the settlement of a file gives every track naming it the same
\* buffer (or none) and counts each of them once toward readiness.
C19_DecodedOncePerFile ==
  /\ [](/\ \A t \in Tracks :
             Cardinality({ i \in DOMAIN FetchesOf(fileOf) :
                             FetchesOf(fileOf)[i] = fileOf[t] }) = 1
        /\ pending \subseteq { fileOf[t] : t \in Tracks })
  /\ [][ \A f \in pending : \A d \in Outcomes(f) :
           LoadResolve(f, d)
           => /\ \A t \in TracksOf(f) : buffers'[t] = d
              /\ \A t \in Tracks \ TracksOf(f) : buffers'[t] = buffers[t]
              /\ readyTrackCount' = readyTrackCount + Cardinality(TracksOf(f)) ]_vars

\* C19 witness: the list in which the three tracks name one file has been
\* loaded by one fetch, and the three tracks hold its buffer
C19_Witness ==
  /\ last = "loadOk"
  /\ \A t \in Tracks : fileOf[t] = fileOf[InitialTrack]
  /\ Len(FetchesOf(fileOf)) = 1
  /\ \A t \in Tracks : buffers[t] = FileDuration(fileOf[InitialTrack])
  /\ readyTrackCount = totalTracks

\* C20: the published volume is within [0, 1] in every state; setVolume(v)
\* stores clamp(v, 0, 1), leaves the active track, the transport, isPlaying,
\* the sessions, readiness, the published times and the error as they were,
\* and leaves on the master gain no event at or after the clock reading but
\* the new smoothing target.
C20_SetVolumeClampsAndFrames ==
  /\ [](0 <= volume /\ volume <= VOLUME_ONE)
  /\ [][ \A v \in Volumes :
           setVolume(v)
           => /\ volume' = Min(VOLUME_ONE, Max(0, v))
              /\ UNCHANGED <<activeTrackId, transportOffsetRef,
                             transportStartContextTimeRef, isPlaying, playbackRef,
                             playbackIdRef, sessions, readyTrackCount, buffers,
                             currentTime, duration, error>>
              /\ { e \in masterGain' : e.at >= now }
                 = { [target |-> volume', at |-> now] } ]_vars

\* C20 witness: a setVolume above 1 has acted: the volume is 1 and the master
\* gain is heading for it from now
C20_Witness ==
  /\ last = "setVolume"
  /\ volume = VOLUME_ONE
  /\ [target |-> VOLUME_ONE, at |-> now] \in masterGain

\* C18: when scheduleStopPlayback stops a session (pause, seek, switchTrack,
\* replacement of the list), no event of its earlier automation stays at or
\* after the stop instant, and the fade-out starts at the stop instant from
\* the gain the session renders just before it: the gain read at the call
\* when the stop is immediate, the value of the timeline just before the
\* stop instant when the stop is scheduled ahead.
C18_FadeOutFromLiveGain ==
  [][ \A o \in sessions : \A s \in sessions' :
        (o.id = s.id /\ ~o.stopped /\ s.stopped /\ s.gain # o.gain)
        => LET live == IF s.fadeOutAt <= now
                       THEN gainValue(o.gain, now)
                       ELSE gainBefore(s.gain, s.fadeOutAt)
           IN /\ \A e \in o.gain : e.at >= s.fadeOutAt => e \notin s.gain
              /\ [kind |-> "set", value |-> live, at |-> s.fadeOutAt] \in s.gain ]_vars

\* the step is a seek or a switchTrack made while playing that created a
\* session
SwitchedWhilePlaying ==
  /\ isPlaying
  /\ playbackIdRef' > playbackIdRef
  /\ \/ \E t \in SeekTimes : seek(t)
     \/ \E n \in Tracks : switchTrack(n)

C11_ReadyDespiteFailures ==
  /\ (~isLibraryReady) ~> isLibraryReady
  /\ [][ /\ \A n \in Tracks :
              ( /\ isLibraryReady
                /\ n # activeTrackId
                /\ buffers[n] > 0
                /\ switchTrack(n) )
              => /\ activeTrackId' = n
                 /\ duration' = buffers[n]
                 /\ error' = "none"
         /\ ( /\ isLibraryReady
              /\ ~isPlaying
              /\ buffers[activeTrackId] > 0
              /\ togglePlay )
            => IF ctxState = "running"
               THEN /\ isPlaying'
                    /\ error' = "none"
                    /\ \E s \in sessions' \ sessions :
                         /\ s.id = playbackRef'
                         /\ s.track = activeTrackId
                         /\ s.dur = buffers[activeTrackId]
               ELSE pendingResume'
                    = Append(pendingResume, [activeId |-> activeTrackId,
                                             dur |-> buffers[activeTrackId]]) ]_vars

\* C11 witness: with the loads of the two other tracks rejected, the library
\* is ready and a togglePlay has started the one track that was decoded
C11_Witness ==
  /\ last = "togglePlay"
  /\ isLibraryReady
  /\ isPlaying
  /\ \A t \in Tracks \ {activeTrackId} : buffers[t] = 0
  /\ \E s \in sessions : s.id = playbackRef /\ s.track = activeTrackId

\* C21: the animation-frame callback changes no state when the engine is
\* paused; when it is playing it publishes as current time the transport
\* offset plus the time elapsed since the anchor, the elapsed time floored at
\* 0 and the sum clamped to [0, duration of the active buffer], and changes
\* nothing else.
C21_TickPublishesPosition ==
  [][ tick
      => /\ currentTime' =
              IF isPlaying
              THEN clamp(transportOffsetRef
                           + Max(0, now - transportStartContextTimeRef),
                         0, buffers[activeTrackId])
              ELSE currentTime
         /\ UNCHANGED <<now, ctxState, pendingResume, fileOf, pending,
                        stalePending, reloads, buffers, activeTrackId, isPlaying,
                        duration, readyTrackCount, error, playbackRef,
                        playbackIdRef, sessions, transportOffsetRef,
                        transportStartContextTimeRef, volume, masterGain>> ]_vars

\* C21 witness: a tick has acted while playing from an offset above 0,
\* before the anchor was reached: the elapsed time is floored at 0
C21_Witness ==
  /\ last = "tick"
  /\ isPlaying
  /\ now < transportStartContextTimeRef
  /\ transportOffsetRef > 0
  /\ currentTime = transportOffsetRef

\* C22 as stated: togglePlay while paused, with the library ready and the
\* active buffer decoded, at a position p below duration - padding, creates
\* exactly one session, of the active track, that starts at sample offset p
\* at now + lookahead with a fade-in; the transport offset stays p, the
\* anchor is the start time, isPlaying becomes true and the error is cleared.
C22_ToggleStartsAtPosition ==
  [][ ( /\ ~isPlaying
        /\ isLibraryReady
        /\ buffers[activeTrackId] > 0
        /\ Position < buffers[activeTrackId] - SWITCH_TIME_PADDING
        /\ togglePlay )
      => /\ \E s \in sessions' :
              /\ sessions' \ sessions = {s}
              /\ s.id = playbackRef'
              /\ s.track = activeTrackId
              /\ s.startOffset = Position
              /\ s.startAt = now + START_LEAD_TIME_SECONDS
              /\ s.gain = FadeIn(s.startAt)
              /\ transportStartContextTimeRef' = s.startAt
         /\ transportOffsetRef' = Position
         /\ isPlaying'
         /\ error' = "none" ]_vars

\* C22 as amended: the same when the audio context is running; when it is
\* suspended the call creates no session, leaves isPlaying, the transport
\* and the error as they were, and defers the start to the resume of the
\* context.
C22_ToggleStartsWhenRunning ==
  [][ ( /\ ~isPlaying
        /\ isLibraryReady
        /\ buffers[activeTrackId] > 0
        /\ Position < buffers[activeTrackId] - SWITCH_TIME_PADDING
        /\ togglePlay )
      => IF ctxState = "running"
         THEN /\ \E s \in sessions' :
                   /\ sessions' \ sessions = {s}
                   /\ s.id = playbackRef'
                   /\ s.track = activeTrackId
                   /\ s.startOffset = Position
                   /\ s.startAt = now + START_LEAD_TIME_SECONDS
                   /\ s.gain = FadeIn(s.startAt)
                   /\ transportStartContextTimeRef' = s.startAt
              /\ transportOffsetRef' = Position
              /\ isPlaying'
              /\ error' = "none"
         ELSE /\ sessions' = sessions
              /\ ~isPlaying'
              /\ Len(pendingResume') = Len(pendingResume) + 1
              /\ UNCHANGED <<transportOffsetRef, transportStartContextTimeRef,
                             playbackRef, error>> ]_vars

\* C22 witness: paused at a position above 0 and below duration - padding,
\* a togglePlay has started a session there
C22_Witness ==
  /\ last = "togglePlay"
  /\ isPlaying
  /\ transportOffsetRef = START_LEAD_TIME_SECONDS
  /\ transportStartContextTimeRef = now + START_LEAD_TIME_SECONDS
  /\ \E s \in sessions :
       /\ s.id = playbackRef
       /\ s.startOffset = START_LEAD_TIME_SECONDS
       /\ s.startAt = now + START_LEAD_TIME_SECONDS

\* C23: while the engine is playing and stays playing, with the library
\* ready, no tick, clock advance or switchTrack makes the position read
\* decrease.  Stated for the switches to a track that has no buffer or whose
\* padding limit the position has not passed.
C23_PositionNeverDecreases ==
  [][ ( /\ isPlaying
        /\ isPlaying'
        /\ isLibraryReady
        /\ \/ tick
           \/ \E d \in AdvanceSteps : Advance(d)
           \/ \E n \in Tracks :
                /\ switchTrack(n)
                /\ \/ buffers[n] = 0
                   \/ Position <= buffers[n] - SWITCH_TIME_PADDING )
      => Position' >= Position ]_vars

\* C24: whenever the engine is playing, the tracked session is one of the
\* active track.
C24_TrackedRendersActive ==
  isPlaying => \E s \in sessions : s.id = playbackRef /\ s.track = activeTrackId

\* C27: whenever the engine is paused, the published current time is the
\* transport offset.
C27_PausedTimeIsOffset ==
  ~isPlaying => currentTime = transportOffsetRef

\* C25: in every state isPlaying holds exactly when a session is tracked,
\* and the tracked session is one source that has not been stopped and whose
\* end has not been handled; so every step to paused clears the tracked
\* session and every step to playing installs one.
C25_PlayingIffTracked ==
  /\ isPlaying <=> playbackRef # 0
  /\ playbackRef # 0
     => /\ Cardinality(Tracked) = 1
        /\ \A s \in Tracked : ~s.stopped

\* C25 witness: the tracked session has reached its end, its ended callback
\* has run, and the engine is paused with no session tracked
C25_Witness ==
  /\ last = "onended"
  /\ ~isPlaying
  /\ playbackRef = 0
  /\ playbackIdRef > 0
  /\ transportOffsetRef = buffers[activeTrackId]
  /\ transportOffsetRef > 0

\* C26: the engine is never playing while the library is not ready: in every
\* state, isPlaying implies that every track of the current list has resolved.
C26_PlayingOnlyWhenReady == isPlaying => isLibraryReady

\* C28: a resolution (fulfilment or rejection, and the finally that follows)
\* of a load started for a replaced track list changes nothing: it stores no
\* buffer, sets no error, publishes no duration or position and leaves
\* readyTrackCount alone; and in every state readyTrackCount is the number of
\* tracks of the current list whose file has settled, so it is 0 right after
\* the list is replaced.
C28_StaleLoadsChangeNothing ==
  /\ [][ (stalePending' # stalePending /\ reloads' = reloads)
         => UNCHANGED <<buffers, error, readyTrackCount, duration, currentTime,
                        transportOffsetRef, isPlaying, sessions>> ]_vars
  /\ [](readyTrackCount = Cardinality({ t \in Tracks : fileOf[t] \notin pending }))

\* C28 witness: after the list was replaced, a promise of the previous list
\* has settled while the new list's load is still pending and nothing of it
\* was stored or counted
C28_Witness ==
  /\ last = "staleLoad"
  /\ reloads > 0
  /\ pending # {}
  /\ readyTrackCount = 0
  /\ \A t \in Tracks : buffers[t] = 0
  /\ error = "none"

\* ------------------------------------------------------------
\* The earlier controller: one HTML audio element whose src is swapped.
\* The element follows the HTML standard's media element: the load algorithm
\* (run when src is set and by load()) drops the tasks queued for the element,
\* sets readyState to HAVE_NOTHING, paused to true and the playback position
\* to 0, and queues a timeupdate when that changed the position.

\* audio.duration of the resource of a track, once its metadata is known
AudioDuration(t) == FileDuration(fileOf[t])

\* audio.ended: playback has reached the end of the resource
ended(a) == a.readyState = "HAVE_METADATA" /\ a.currentTime >= a.duration

\* audio.src = file of track t; audio.load()
load(a, t) ==
  [a EXCEPT !.src = t, !.readyState = "HAVE_NOTHING", !.paused = TRUE,
            !.currentTime = 0, !.duration = 0, !.loading = TRUE,
            !.timeupdateQueued = (a.currentTime # 0)]

\* audio.removeEventListener('loadedmetadata', l)
removeEventListener(ls, l) == SelectSeq(ls, LAMBDA x : x # l)

\* audio.addEventListener('loadedmetadata', l)
addEventListener(ls, l) == IF \E i \in 1..Len(ls) : ls[i] = l THEN ls ELSE Append(ls, l)

AudioDid(op) == last' = op /\ UNCHANGED <<calls, callBudget>> /\ UNCHANGED webAudioVars
AudioCalled(op) ==
  /\ calls < callBudget /\ calls' = calls + 1 /\ last' = op
  /\ UNCHANGED callBudget /\ UNCHANGED webAudioVars

\* the controller after its first render and its mount effect: the element
\* is created with the file of tracks[0] and load() is called
InitAudioElement ==
  /\ now = 0
  /\ ctxState = "suspended"
  /\ pendingResume = <<>>
  /\ fileOf \in InitialFileMaps
  /\ pending = {}
  /\ stalePending = {}
  /\ reloads = 0
  /\ buffers = [t \in Tracks |-> 0]
  /\ readyTrackCount = 0
  /\ playbackRef = 0
  /\ playbackIdRef = 0
  /\ sessions = {}
  /\ transportOffsetRef = 0
  /\ transportStartContextTimeRef = 0
  /\ masterGain = {}
  /\ activeTrackId = InitialTrack
  /\ isPlaying = FALSE
  /\ currentTime = 0
  /\ duration = 0
  /\ volume = INITIAL_VOLUME_AUDIO
  /\ isReady = FALSE
  /\ error = "none"
  /\ audio = [NoAudio EXCEPT !.src = InitialTrack, !.loading = TRUE]
  /\ pendingSwitchListenerRef = NoListener
  /\ calls = 0
  /\ callBudget = MaxCallsDeep
  /\ last = "init"

\* handleSwitchLoaded of the listener l, applied to st = the element, the
\* published currentTime, the pending listener ref and whether play() was
\* called
handleSwitchLoaded(l, st) ==
  LET nextDuration == st.audio.duration
      safeMaxTime  == Max(0, nextDuration - SWITCH_TIME_PADDING)
      nextTime     == clamp(l.prevTime, 0, safeMaxTime)
  IN [audio |-> [st.audio EXCEPT !.listeners = removeEventListener(@, l),
                                 !.currentTime = nextTime],
      currentTime |-> nextTime,
      pending |-> NoListener,
      play |-> st.play \/ l.wasPlaying]

\* the switch listeners registered when the event is dispatched, run in the
\* order of their registration
RECURSIVE RunSwitchListeners(_, _)
RunSwitchListeners(ls, st) ==
  IF ls = <<>> THEN st
  ELSE RunSwitchListeners(Tail(ls), handleSwitchLoaded(Head(ls), st))

\* The metadata of the resource being loaded arrives: loadedmetadata is
\* dispatched to handleLoadedMetadata and then to the switch listeners; a
\* play() called by a switch listener is allowed (playOk) or rejected.
loadedmetadata(playOk) ==
  /\ audio.loading
  /\ LET a1 == [audio EXCEPT !.loading = FALSE, !.readyState = "HAVE_METADATA",
                             !.duration = AudioDuration(audio.src)]
         st == RunSwitchListeners(a1.listeners,
                 [audio |-> a1, currentTime |-> a1.currentTime,
                  pending |-> pendingSwitchListenerRef, play |-> FALSE])
     IN /\ duration' = a1.duration
        /\ currentTime' = st.currentTime
        /\ isReady' = TRUE
        /\ pendingSwitchListenerRef' = st.pending
        /\ IF ~st.play
           THEN audio' = st.audio /\ error' = "none" /\ UNCHANGED isPlaying
           ELSE IF playOk
           THEN /\ audio' = [st.audio EXCEPT !.paused = FALSE]
                /\ isPlaying' = TRUE
                /\ error' = "none"
           ELSE /\ audio' = st.audio
                /\ isPlaying' = FALSE
                /\ error' = "play"
  /\ AudioDid("audio.loadedmetadata")
  /\ UNCHANGED <<activeTrackId, volume>>

\* The resource being loaded cannot be fetched or decoded: handleError
handleError ==
  /\ audio.loading
  /\ audio' = [audio EXCEPT !.loading = FALSE]
  /\ error' = "load"
  /\ isReady' = FALSE
  /\ isPlaying' = FALSE
  /\ AudioDid("audio.error")
  /\ UNCHANGED <<activeTrackId, volume, currentTime, duration,
                 pendingSwitchListenerRef>>

\* The timeupdate queued by the load algorithm is dispatched: handleTimeUpdate
handleTimeUpdate ==
  /\ audio.timeupdateQueued
  /\ audio' = [audio EXCEPT !.timeupdateQueued = FALSE]
  /\ currentTime' = audio.currentTime
  /\ AudioDid("audio.timeupdate")
  /\ UNCHANGED <<activeTrackId, volume, isPlaying, duration, isReady, error,
                 pendingSwitchListenerRef>>

\* Playback advances by d and timeupdate is dispatched
AudioAdvance(d) ==
  /\ ~audio.paused
  /\ audio.readyState = "HAVE_METADATA"
  /\ ~ended(audio)
  /\ audio' = [audio EXCEPT !.currentTime = Min(audio.duration, @ + d),
                            !.timeupdateQueued = FALSE]
  /\ currentTime' = Min(audio.duration, audio.currentTime + d)
  /\ AudioDid("audio.advance")
  /\ UNCHANGED <<activeTrackId, volume, isPlaying, duration, isReady, error,
                 pendingSwitchListenerRef>>

\* Playback has reached the end: the element pauses, handlePause and
\* handleEnded run
handleEnded ==
  /\ ~audio.paused
  /\ ended(audio)
  /\ audio' = [audio EXCEPT !.paused = TRUE]
  /\ isPlaying' = FALSE
  /\ currentTime' = audio.duration
  /\ AudioDid("audio.ended")
  /\ UNCHANGED <<activeTrackId, volume, duration, isReady, error,
                 pendingSwitchListenerRef>>

\* togglePlay of the audio-element controller; play() is allowed (playOk) or
\* rejected
audioTogglePlay(playOk) ==
  /\ IF audio.paused
     THEN IF playOk
          THEN /\ audio' = [audio EXCEPT !.paused = FALSE,
                              !.currentTime = IF ended(audio) THEN 0 ELSE @]
               /\ isPlaying' = TRUE
               /\ UNCHANGED error
          ELSE /\ error' = "play"
               /\ isPlaying' = FALSE
               /\ UNCHANGED audio
     ELSE /\ audio' = [audio EXCEPT !.paused = TRUE]
          /\ isPlaying' = FALSE
          /\ UNCHANGED error
  /\ AudioCalled("audio.togglePlay")
  /\ UNCHANGED <<activeTrackId, volume, currentTime, duration, isReady,
                 pendingSwitchListenerRef>>

\* seek of the audio-element controller
audioSeek(timeInSeconds) ==
  /\ IF duration <= 0
     THEN UNCHANGED <<audio, currentTime>>
     ELSE LET safeTime == clamp(timeInSeconds, 0, duration)
          IN /\ audio' = [audio EXCEPT !.currentTime = safeTime]
             /\ currentTime' = safeTime
  /\ AudioCalled("audio.seek")
  /\ UNCHANGED <<activeTrackId, volume, isPlaying, duration, isReady, error,
                 pendingSwitchListenerRef>>

\* setVolume of the audio-element controller
audioSetVolume(nextVolume) ==
  /\ volume' = clamp(nextVolume, 0, VOLUME_ONE)
  /\ AudioCalled("audio.setVolume")
  /\ UNCHANGED <<audio, activeTrackId, isPlaying, currentTime, duration,
                 isReady, error, pendingSwitchListenerRef>>

\* switchTrack of the audio-element controller
audioSwitchTrack(nextTrackId) ==
  /\ AudioCalled("audio.switchTrack")
  /\ IF nextTrackId = activeTrackId
     THEN UNCHANGED <<audio, activeTrackId, isPlaying, currentTime, duration,
                      isReady, error, pendingSwitchListenerRef, volume>>
     ELSE LET prevTime   == audio.currentTime
              wasPlaying == ~audio.paused /\ ~ended(audio)
              removed    == IF pendingSwitchListenerRef # NoListener
                            THEN removeEventListener(audio.listeners,
                                                     pendingSwitchListenerRef)
                            ELSE audio.listeners
              l          == [id |-> calls + 1, prevTime |-> prevTime,
                             wasPlaying |-> wasPlaying]
              a1         == [audio EXCEPT !.listeners = addEventListener(removed, l)]
          IN /\ pendingSwitchListenerRef' = l
             /\ error' = "none"
             /\ isReady' = FALSE
             /\ duration' = 0
             /\ currentTime' = prevTime
             /\ activeTrackId' = nextTrackId
             /\ audio' = load(a1, nextTrackId)
             /\ UNCHANGED <<isPlaying, volume>>

NextAudioElement ==
  \/ \E ok \in BOOLEAN : loadedmetadata(ok)
  \/ handleError
  \/ handleTimeUpdate
  \/ \E d \in AdvanceSteps : AudioAdvance(d)
  \/ handleEnded
  \/ \E ok \in BOOLEAN : audioTogglePlay(ok)
  \/ \E t \in SeekTimes : audioSeek(t)
  \/ \E v \in Volumes : audioSetVolume(v)
  \/ \E n \in Tracks : audioSwitchTrack(n)

SpecAudioElement == InitAudioElement /\ [][NextAudioElement]_vars

\* the switch that is in progress carries t: its listener is registered and
\* its metadata has not loaded
Carrying == pendingSwitchListenerRef # NoListener

\* C29: in the audio-element controller, (1) a switchTrack to another track
\* carries the playback time held before the switch: the position of the
\* element, or, when an earlier switch is still waiting for its metadata, the
\* time that switch is carrying; (2) when the metadata loads, the element and
\* the published currentTime are set to the carried time, clamped to the new
\* duration less the padding; (3) in every state at most one switch listener
\* is registered and it is the one of the latest switchTrack.
C29_SwitchCarriesTime ==
  /\ [][ (last' = "audio.switchTrack" /\ activeTrackId' # activeTrackId)
         => pendingSwitchListenerRef'.prevTime
              = (IF Carrying THEN pendingSwitchListenerRef.prevTime
                 ELSE audio.currentTime) ]_vars
  /\ [][ (last' = "audio.loadedmetadata" /\ Carrying)
         => LET t == clamp(pendingSwitchListenerRef.prevTime, 0,
                           Max(0, audio'.duration - SWITCH_TIME_PADDING))
            IN /\ audio'.currentTime = t
               /\ currentTime' = t
               /\ ~Carrying' ]_vars
  /\ [](/\ Len(audio.listeners) <= 1
        /\ audio.listeners # <<>> => audio.listeners[1] = pendingSwitchListenerRef)

====
